---- MODULE Spec2Model ----
(***************************************************************************)
(* Model of src/services/server.rs of waybar-module-pomodoro: the accept   *)
(* loop of spawn_server, the tick loop of handle_client, process_message   *)
(* and format_time.  Timer, Message and Config live in other files of the  *)
(* crate; their operations are modelled from the specification and from    *)
(* the unit tests of server.rs that exercise them.                         *)
(***************************************************************************)
EXTENDS Integers, Sequences, FiniteSets, TLC

VARIABLES
    state,            \* handle_client: `let mut state = Timer::new(..)`
    chan,             \* the mpsc channel (tx, rx): payloads sent and not yet received
    relayed,          \* history: the payloads the accept loop gave to tx.send, in order
    applied,          \* history: the payloads the tick loop gave to process_message, in order
    server,           \* the accept loop: "listening", "shutdown" (exit), "crashed" (send failed)
    socket_exists,    \* whether the file at socket_path exists
    tick_alive,       \* whether the thread running handle_client is alive
    overflow_checks,  \* build profile: TRUE = arithmetic overflow panics, FALSE = it wraps
    status,           \* the status line printed by the most recent tick
    drained,          \* what the most recent tick handed to process_message
    config,           \* handle_client: `config: Config`
    cache             \* the snapshot cache::store wrote most recently for this instance

vars == <<state, chan, relayed, applied, server, socket_exists, tick_alive,
          overflow_checks, status, drained, config, cache>>

----------------------------------------------------------------------------
(* Bounds of the model *)

\* most payloads relayed in a run whose history is recorded
MaxSends == 3
\* largest session_completed explored
MaxSessions == 4
\* longest channel content explored while the timer is observed
TimerQueue == 1
\* largest minutes value carried by a structured command
MaxMinutes == 1

----------------------------------------------------------------------------
(* Program constants *)

\* utils::consts::MINUTE, seconds per minute (test_format_time: 300 of 600 is "05:00")
MINUTE == 60
\* u16::MAX + 1
U16 == 65536
\* "every Nth work session" is followed by a long break
MAX_ITERATIONS == 4

\* CycleType as an index into Timer::times (get_time of the tests)
Work == 0
ShortBreak == 1
LongBreak == 2

----------------------------------------------------------------------------
(* Payloads: the text a client writes on the socket *)

START == <<"s", "t", "a", "r", "t">>
STOP == <<"s", "t", "o", "p">>
TOGGLE == <<"t", "o", "g", "g", "l", "e">>
RESET == <<"r", "e", "s", "e", "t">>
EXIT == <<"e", "x", "i", "t">>
SET_WORK == <<"s", "e", "t", "-", "w", "o", "r", "k">>
SET_SHORT == <<"s", "e", "t", "-", "s", "h", "o", "r", "t">>
SET_LONG == <<"s", "e", "t", "-", "l", "o", "n", "g">>

\* a payload that is not a structured command: its text
Bare(t) == [structured |-> FALSE, text |-> t, value |-> 0]
\* Message::new(name, value).encode(): the structured command
Structured(n, v) == [structured |-> TRUE, text |-> n, value |-> v]

\* str::contains on the text of a payload
Contains(s, pat) ==
    \E i \in 1..(Len(s) - Len(pat) + 1) : SubSeq(s, i, i + Len(pat) - 1) = pat

\* ContainsExit with `==` in place of `contains`
ContainsExit_Exact(message) == message.text = EXIT

\* message.contains("exit"); the encoding of a structured command adds braces,
\* the keys name and value and digits around the name, none of which spell exit
ContainsExit(message) == Contains(message.text, EXIT)

\* Message::decode(message) is Ok
DecodeOk(message) == message.structured

----------------------------------------------------------------------------
(* Timer *)

\* Timer::new(work_time, short_break, long_break, socket_nr)
TimerNew(work_time, short_break, long_break) ==
    [times |-> <<work_time, short_break, long_break>>,
     elapsed_time |-> 0,
     current_index |-> Work,
     running |-> FALSE,
     session_completed |-> 0]

\* Timer::get_current_time
GetCurrentTime(t) == t.times[t.current_index + 1]

\* `msg.value() as u16`
AsU16(v) == v % U16

\* Timer::set_time(cycle, input): times[cycle] = input * MINUTE, in u16
SetTime(t, cycle, input) ==
    [t EXCEPT !.times[cycle + 1] = (input * MINUTE) % U16]

\* whether input * MINUTE overflows u16
SetTimeOverflows(input) == input * MINUTE >= U16

\* Timer::reset
Reset(t) ==
    [t EXCEPT !.elapsed_time = 0, !.current_index = Work,
              !.running = FALSE, !.session_completed = 0]

\* Timer::increment_time
IncrementTime(t) == [t EXCEPT !.elapsed_time = (t.elapsed_time + 1) % U16]

\* the cycle that follows cycle c when session_completed is n after the transition
NextCycle(c, n) ==
    IF c = Work
    THEN IF n % MAX_ITERATIONS = 0 THEN LongBreak ELSE ShortBreak
    ELSE Work

\* whether update_state finds the current cycle complete
CycleComplete(t) == t.elapsed_time >= GetCurrentTime(t)

\* Timer::update_state(config)
UpdateState(t) ==
    IF CycleComplete(t)
    THEN LET n == IF t.current_index = Work
                  THEN t.session_completed + 1
                  ELSE t.session_completed
         IN [t EXCEPT !.elapsed_time = 0,
                      !.current_index = NextCycle(t.current_index, n),
                      !.session_completed = n]
    ELSE t

----------------------------------------------------------------------------
(* server.rs *)

\* format_time(elapsed_time, max_time): the minutes and seconds printed;
\* the u16 subtraction wraps when overflow checks are off
FormatTime(elapsed_time, max_time) ==
    LET time == (max_time - elapsed_time + U16) % U16
    IN <<time \div MINUTE, time % MINUTE>>

\* whether `max_time - elapsed_time` underflows
FormatTimeUnderflows(elapsed_time, max_time) == elapsed_time > max_time

\* the decimal digits
Digits == <<"0", "1", "2", "3", "4", "5", "6", "7", "8", "9">>

\* the decimal numeral of n, without padding
RECURSIVE Decimal(_)
Decimal(n) ==
    IF n < 10 THEN <<Digits[n + 1]>>
    ELSE Decimal(n \div 10) \o <<Digits[(n % 10) + 1]>>

\* Format02 without the zero padding
Format02_NoPad(n) == Decimal(n)

\* format!("{:02}", n): the numeral of n, zero-padded to a width of at least 2
Format02(n) == IF n < 10 THEN <<"0">> \o Decimal(n) ELSE Decimal(n)

\* format_time(elapsed_time, max_time): the text returned
FormatTimeText(elapsed_time, max_time) ==
    LET time == FormatTime(elapsed_time, max_time)
    IN Format02(time[1]) \o <<":">> \o Format02(time[2])

\* StructuredCommand with an unknown name taken for set-work
StructuredCommand_DefaultsToWork(t, name, value) ==
    CASE name = SET_SHORT -> SetTime(t, ShortBreak, AsU16(value))
      [] name = SET_LONG -> SetTime(t, LongBreak, AsU16(value))
      [] OTHER -> SetTime(t, Work, AsU16(value))

\* process_message, the arm taken when Message::decode succeeds
StructuredCommand(t, name, value) ==
    CASE name = SET_WORK -> SetTime(t, Work, AsU16(value))
      [] name = SET_SHORT -> SetTime(t, ShortBreak, AsU16(value))
      [] name = SET_LONG -> SetTime(t, LongBreak, AsU16(value))
      [] OTHER -> t

\* BareCommand with "toggle" setting the flag instead of negating it
BareCommand_ToggleSets(t, text) ==
    CASE text = START -> [t EXCEPT !.running = TRUE]
      [] text = STOP -> [t EXCEPT !.running = FALSE]
      [] text = TOGGLE -> [t EXCEPT !.running = TRUE]
      [] text = RESET -> Reset(t)
      [] OTHER -> t

\* BareCommand with "reset" only stopping the timer
BareCommand_ResetStops(t, text) ==
    CASE text = START -> [t EXCEPT !.running = TRUE]
      [] text = STOP -> [t EXCEPT !.running = FALSE]
      [] text = TOGGLE -> [t EXCEPT !.running = ~t.running]
      [] text = RESET -> [t EXCEPT !.running = FALSE]
      [] OTHER -> t

\* process_message, the arm taken when Message::decode fails
BareCommand(t, text) ==
    CASE text = START -> [t EXCEPT !.running = TRUE]
      [] text = STOP -> [t EXCEPT !.running = FALSE]
      [] text = TOGGLE -> [t EXCEPT !.running = ~t.running]
      [] text = RESET -> Reset(t)
      [] OTHER -> t

\* process_message(state, message)
ProcessMessage(t, message) ==
    IF DecodeOk(message)
    THEN StructuredCommand(t, message.text, message.value)
    ELSE BareCommand(t, message.text)

\* whether process_message(state, message) panics under overflow checks
ProcessMessageOverflows(message) ==
    /\ DecodeOk(message)
    /\ message.text \in {SET_WORK, SET_SHORT, SET_LONG}
    /\ SetTimeOverflows(AsU16(message.value))

\* tx.send(message) on the channel
Send(ch, message) == Append(ch, message)

\* TryRecv taking the newest payload instead of the oldest
TryRecv_Newest(ch) == ch[Len(ch)]

\* rx.try_recv(): the message received, when one is queued
TryRecv(ch) == Head(ch)

\* AfterRecv with the whole queue drained by one poll
AfterRecv_DrainAll(ch) == <<>>

\* the channel after a successful rx.try_recv()
AfterRecv(ch) == Tail(ch)

\* AfterTick without the call of update_state
AfterTick_NoUpdate(s1) == IF s1.running THEN IncrementTime(s1) ELSE s1

\* AfterTick with increment_time before update_state
AfterTick_IncrementFirst(s1) ==
    UpdateState(IF s1.running THEN IncrementTime(s1) ELSE s1)

\* AfterTick with increment_time called whether or not the timer is running
AfterTick_IncrementAlways(s1) == IncrementTime(UpdateState(s1))

\* handle_client, the end of an iteration: update_state, then increment_time if running
AfterTick(s1) ==
    LET s2 == UpdateState(s1)
    IN IF s2.running THEN IncrementTime(s2) ELSE s2

NoStatus == [printed |-> FALSE, value |-> <<0, 0>>, text |-> <<>>,
             running |-> FALSE, class |-> Work, sessions |-> 0]

\* handle_client, the status line a tick prints for timer t
StatusLine(t) ==
    [printed |-> TRUE,
     value |-> FormatTime(t.elapsed_time, GetCurrentTime(t)),
     text |-> FormatTimeText(t.elapsed_time, GetCurrentTime(t)),
     running |-> t.running,
     class |-> t.current_index,
     sessions |-> t.session_completed]

\* no snapshot has been written
NoCache == [present |-> FALSE, timer |-> TimerNew(0, 0, 0)]

\* cache::store(&state), a write that succeeds
Store(t) == [present |-> TRUE, timer |-> t]

\* cache::restore(&mut state, &config): state takes the snapshot, and a
\* failing restore leaves the fresh state
Restore(fresh, c) == IF c.present THEN c.timer ELSE fresh

NotDrained == [got |-> FALSE, message |-> Bare(<<>>), left |-> 0]

\* the payloads clients send while the channel is observed
Payloads ==
    {Bare(START), Bare(STOP), Bare(<<"f", "o", "o">>),
     Bare(EXIT), Bare(EXIT \o <<"!">>), Structured(EXIT, 0),
     Structured(SET_WORK, 0), Structured(SET_SHORT, 0), Structured(START, 1)}

\* the minutes values of the structured commands sent while the timer is observed
TimerMinutes == {0}

\* the payloads clients send while the timer is observed
TimerPayloads ==
    {Bare(START), Bare(STOP), Bare(RESET)}
    \cup {Structured(n, v) : n \in {SET_WORK, SET_SHORT, SET_LONG}, v \in TimerMinutes}
    \cup {Structured(SET_WORK, 1)}

\* the durations, in seconds, the configuration gives the three cycles
Configs == {<<2, 1, 1>>}

\* the minutes values given to process_message when it is observed alone
PMValues == 0..MaxMinutes \cup {1093, 65537}

\* the payloads given to process_message when it is observed alone
PMPayloads ==
    {Bare(START), Bare(STOP), Bare(TOGGLE), Bare(RESET), Bare(<<"f", "o", "o">>)}
    \cup {Structured(n, v) : n \in {SET_WORK, SET_SHORT, SET_LONG, <<"s", "e", "t">>},
                             v \in PMValues}

\* the timers process_message is given when it is observed alone
PMTimers ==
    [times : {<<2, 1, 1>>, <<MINUTE, MINUTE, 2 * MINUTE>>},
     elapsed_time : 0..2,
     current_index : {Work, ShortBreak, LongBreak},
     running : BOOLEAN,
     session_completed : {0, 1, MaxSessions}]

\* the state after `let mut state = Timer::new(..)` and the optional restore
StartState_NoRestore(cfg, c) ==
    TimerNew(cfg.work_time, cfg.short_break, cfg.long_break)

\* handle_client, the state the loop starts from
StartState(cfg, c) ==
    LET fresh == TimerNew(cfg.work_time, cfg.short_break, cfg.long_break)
    IN IF cfg.persist THEN Restore(fresh, c) ELSE fresh

\* handle_client, `if config.persist { let _ = cache::store(&state); }`;
\* written tells whether the write succeeded
AfterStore(cfg, c, t, written) ==
    IF cfg.persist /\ written THEN Store(t) ELSE c

\* the outcomes of the write of cache::store
StoreOutcomes(cfg) == IF cfg.persist THEN BOOLEAN ELSE {FALSE}

Init ==
    /\ \E c \in Configs : config = [work_time |-> c[1], short_break |-> c[2],
                                    long_break |-> c[3], persist |-> FALSE]
    /\ cache = NoCache
    /\ state = StartState(config, cache)
    /\ chan = <<>>
    /\ relayed = <<>>
    /\ applied = <<>>
    /\ server = "listening"
    /\ socket_exists = TRUE
    /\ tick_alive = TRUE
    /\ overflow_checks \in BOOLEAN
    /\ status = NoStatus
    /\ drained = NotDrained

\* Accept with a send that succeeds whether or not the receiver is alive
Accept_SendNeverFails(message) ==
    /\ server = "listening"
    /\ IF ContainsExit(message)
       THEN /\ socket_exists' = FALSE
            /\ server' = "shutdown"
            /\ UNCHANGED chan
       ELSE /\ chan' = Send(chan, message)
            /\ UNCHANGED <<server, socket_exists>>
    /\ UNCHANGED <<state, tick_alive, overflow_checks, status, drained, config, cache>>

\* spawn_server, one iteration of `for stream in listener.incoming()`
Accept(message) ==
    /\ server = "listening"
    /\ IF ContainsExit(message)
       THEN /\ socket_exists' = FALSE
            /\ server' = "shutdown"
            /\ UNCHANGED chan
       ELSE IF tick_alive
            THEN /\ chan' = Send(chan, message)
                 /\ UNCHANGED <<server, socket_exists>>
            ELSE /\ server' = "crashed"
                 /\ UNCHANGED <<chan, socket_exists>>
    /\ UNCHANGED <<state, tick_alive, overflow_checks, status, drained, config, cache>>

\* handle_client, one iteration of `loop`
Tick ==
    /\ tick_alive
    /\ LET got == chan # <<>>
           s1 == IF got THEN ProcessMessage(state, TryRecv(chan)) ELSE state
           panics == overflow_checks /\
                     (\/ got /\ ProcessMessageOverflows(TryRecv(chan))
                      \/ FormatTimeUnderflows(s1.elapsed_time, GetCurrentTime(s1)))
       IN /\ UpdateState(s1).session_completed <= MaxSessions
          /\ chan' = IF got THEN AfterRecv(chan) ELSE chan
          /\ drained' = IF got
                        THEN [got |-> TRUE, message |-> TryRecv(chan),
                              left |-> Len(AfterRecv(chan))]
                        ELSE NotDrained
          /\ IF panics
             THEN /\ tick_alive' = FALSE
                  /\ state' = s1
                  /\ UNCHANGED <<status, cache>>
             ELSE /\ tick_alive' = TRUE
                  /\ state' = AfterTick(s1)
                  /\ status' = StatusLine(s1)
                  /\ \E written \in StoreOutcomes(config) :
                        cache' = AfterStore(config, cache, state', written)
    /\ UNCHANGED <<server, socket_exists, overflow_checks, config>>

\* the process ends and a new instance starts on the same socket path
Restart ==
    /\ state' = StartState(config, cache)
    /\ chan' = <<>>
    /\ server' = "listening"
    /\ socket_exists' = TRUE
    /\ tick_alive' = TRUE
    /\ status' = NoStatus
    /\ drained' = NotDrained
    /\ UNCHANGED <<relayed, applied, overflow_checks, config, cache>>

\* a unit test's call of process_message(&mut timer, message)
Apply(message) ==
    /\ tick_alive
    /\ IF overflow_checks /\ ProcessMessageOverflows(message)
       THEN /\ tick_alive' = FALSE
            /\ UNCHANGED state
       ELSE /\ tick_alive' = TRUE
            /\ state' = ProcessMessage(state, message)
    /\ drained' = [got |-> TRUE, message |-> message, left |-> 0]
    /\ UNCHANGED <<chan, relayed, applied, server, socket_exists,
                   overflow_checks, status, config, cache>>

----------------------------------------------------------------------------
(* Specifications *)

\* the accept thread and the tick thread, with the history of the channel
Next ==
    \/ \E message \in Payloads :
          /\ Len(relayed) < MaxSends
          /\ Accept(message)
          /\ relayed' = IF chan' # chan THEN Append(relayed, message) ELSE relayed
          /\ UNCHANGED applied
    \/ /\ Tick
       /\ applied' = IF drained'.got THEN Append(applied, drained'.message) ELSE applied
       /\ UNCHANGED relayed

Spec == Init /\ [][Next]_vars

\* the accept thread and the tick thread, with every command of the timer
NextTimer ==
    \/ \E message \in TimerPayloads :
          /\ Len(chan) < TimerQueue
          /\ Accept(message)
          /\ UNCHANGED <<relayed, applied>>
    \/ /\ Tick
       /\ UNCHANGED <<relayed, applied>>

SpecTimer == Init /\ [][NextTimer]_vars

\* the payloads clients send while the cache is observed
PersistPayloads == {Bare(START), Bare(STOP)}

\* an instance with persistence enabled, stopped and started again
InitPersist ==
    /\ \E c \in Configs : config = [work_time |-> c[1], short_break |-> c[2],
                                    long_break |-> c[3], persist |-> TRUE]
    /\ cache = NoCache
    /\ state = StartState(config, cache)
    /\ chan = <<>>
    /\ relayed = <<>>
    /\ applied = <<>>
    /\ server = "listening"
    /\ socket_exists = TRUE
    /\ tick_alive = TRUE
    /\ overflow_checks \in BOOLEAN
    /\ status = NoStatus
    /\ drained = NotDrained

NextPersist ==
    \/ \E message \in PersistPayloads :
          /\ Len(chan) < TimerQueue
          /\ Accept(message)
          /\ UNCHANGED <<relayed, applied>>
    \/ /\ Tick
       /\ UNCHANGED <<relayed, applied>>
    \/ Restart

SpecPersist == InitPersist /\ [][NextPersist]_vars

\* the cycle durations, in seconds, format_time is given when it is observed alone
FmtMaxTimes == {0, 1, 59, MINUTE, 2 * MINUTE, 10 * MINUTE, 5999, 6000, 6001, 65535}

\* the elapsed times, in seconds, format_time is given when it is observed alone
FmtElapsed == {0, 1, 59, 300, 6000}

\* the payloads given to process_message before format_time is observed
FmtPayloads == {Structured(SET_WORK, 30)}

\* a unit test's call of format_time on the timer's elapsed time and duration
Render ==
    /\ tick_alive
    /\ IF overflow_checks /\
          FormatTimeUnderflows(state.elapsed_time, GetCurrentTime(state))
       THEN /\ tick_alive' = FALSE
            /\ UNCHANGED status
       ELSE /\ tick_alive' = TRUE
            /\ status' = StatusLine(state)
    /\ UNCHANGED <<state, chan, relayed, applied, server, socket_exists,
                   overflow_checks, drained, config, cache>>

\* format_time alone, on any elapsed time and duration
InitFmt ==
    /\ \E c \in Configs : config = [work_time |-> c[1], short_break |-> c[2],
                                    long_break |-> c[3], persist |-> FALSE]
    /\ cache = NoCache
    /\ \E m \in FmtMaxTimes, e \in FmtElapsed, r \in BOOLEAN :
          state = [TimerNew(m, m, m) EXCEPT !.elapsed_time = e, !.running = r]
    /\ chan = <<>>
    /\ relayed = <<>>
    /\ applied = <<>>
    /\ server = "listening"
    /\ socket_exists = TRUE
    /\ tick_alive = TRUE
    /\ overflow_checks \in BOOLEAN
    /\ status = NoStatus
    /\ drained = NotDrained

NextFmt ==
    \/ Render
    \/ \E message \in FmtPayloads : Apply(message)

SpecFmt == InitFmt /\ [][NextFmt]_vars

\* process_message alone, on any timer
InitPM ==
    /\ \E c \in Configs : config = [work_time |-> c[1], short_break |-> c[2],
                                    long_break |-> c[3], persist |-> FALSE]
    /\ cache = NoCache
    /\ state \in PMTimers
    /\ chan = <<>>
    /\ relayed = <<>>
    /\ applied = <<>>
    /\ server = "listening"
    /\ socket_exists = TRUE
    /\ tick_alive = TRUE
    /\ overflow_checks \in BOOLEAN
    /\ status = NoStatus
    /\ drained = NotDrained

NextPM == \E message \in PMPayloads : Apply(message)

SpecPM == InitPM /\ [][NextPM]_vars

----------------------------------------------------------------------------
(* Claims *)

\* whether some tick has run to its end and the tick thread is still running
TickCompleted == status.printed /\ tick_alive

\* C1: a tick that starts with k >= 1 queued commands hands exactly the oldest
\* one to process_message and leaves the other k-1 queued in their order, so
\* with k >= 2 the second is the one the following tick applies.
C1_OnePerTick ==
    [][(Tick /\ Len(chan) >= 1) =>
          /\ drained'.got
          /\ drained'.message = chan[1]
          /\ drained'.left = Len(chan) - 1
          /\ chan' = SubSeq(chan, 2, Len(chan))
          /\ applied' = Append(applied, chan[1])]_vars

\* a tick applied one command and left another queued
C1_Witness == drained.got /\ drained.left >= 1 /\ Len(applied) >= 1

\* whether sequence p is a prefix of sequence q
IsPrefix(p, q) == Len(p) <= Len(q) /\ SubSeq(q, 1, Len(p)) = p

\* C2: the commands applied by process_message are a prefix of the commands
\* relayed by tx.send, in the same order, and the channel holds the rest.
C2_AppliedPrefixOfRelayed ==
    /\ IsPrefix(applied, relayed)
    /\ relayed = applied \o chan

\* two commands applied while a third, relayed later, is still queued
C2_Witness == Len(applied) = 2 /\ Len(relayed) = 3 /\ applied[1] # applied[2]

\* C3: a relayed command is applied or can still be applied: the tick thread
\* is alive as long as a relayed command has not been applied.
C3_EveryRelayedIsApplied == Len(applied) < Len(relayed) => tick_alive

C5_ElapsedNeverExceeds ==
    TickCompleted => state.elapsed_time <= GetCurrentTime(state)

\* the start of the tick of C6: running, in Work, no session completed, no
\* command pending
C6_Start ==
    /\ chan = <<>>
    /\ state.running
    /\ state.current_index = Work
    /\ state.session_completed = 0

\* C6 as stated: from elapsed = duration(Work) - 1 one tick without a pending
\* command yields elapsed = 0, ShortBreak and one completed session.
C6_OneTickCompletes ==
    [][(Tick /\ C6_Start /\ state.elapsed_time = GetCurrentTime(state) - 1) =>
          /\ state'.elapsed_time = 0
          /\ state'.current_index = ShortBreak
          /\ state'.session_completed = 1]_vars

\* C6 as amended: from elapsed = duration(Work) - 1 one tick without a pending
\* command only increments elapsed to duration(Work); the tick that starts with
\* elapsed = duration(Work) yields ShortBreak, one completed session and
\* elapsed = 1.
C6_TwoTicksComplete ==
    [][(Tick /\ C6_Start) =>
          /\ state.elapsed_time = GetCurrentTime(state) - 1 =>
                state' = [state EXCEPT !.elapsed_time = GetCurrentTime(state)]
          /\ state.elapsed_time = GetCurrentTime(state) =>
                state' = [state EXCEPT !.elapsed_time = 1,
                                       !.current_index = ShortBreak,
                                       !.session_completed = 1]]_vars

\* the second tick has acted: ShortBreak, one session, elapsed 1, still running
C6_Witness ==
    /\ TickCompleted
    /\ ~drained.got
    /\ state.running
    /\ state.current_index = ShortBreak
    /\ state.session_completed = 1
    /\ state.elapsed_time = 1
    /\ status.class = Work
    /\ status.value = <<0, 0>>

\* C7: when the accept loop reads a payload that contains "exit", the socket
\* file is gone afterwards, the loop has ended and the payload is not relayed;
\* once the loop has ended nothing is relayed and the socket file stays gone.
C7_ExitEndsAcceptLoop ==
    [][/\ \A message \in Payloads :
             (Accept(message) /\ Contains(message.text, EXIT)) =>
                 /\ ~socket_exists'
                 /\ server' = "shutdown"
                 /\ relayed' = relayed
                 /\ chan' = chan
       /\ server = "shutdown" =>
             /\ server' = "shutdown"
             /\ ~socket_exists'
             /\ relayed' = relayed
             /\ Len(chan') <= Len(chan)]_vars

\* the accept loop ended on an exit payload after it had relayed commands, and
\* the tick loop went on applying them
C7_Witness ==
    /\ server = "shutdown"
    /\ ~socket_exists
    /\ Len(relayed) >= 2
    /\ applied = relayed

\* C8: set-work, set-short and set-long with value v set the duration of the
\* named cycle to v * 60 seconds and change nothing else of the timer.
C8_SetTimeSetsNamedCycle ==
    [][\A c \in {Work, ShortBreak, LongBreak} :
          (/\ drained'.got
           /\ drained'.message.structured
           /\ drained'.message.text = <<SET_WORK, SET_SHORT, SET_LONG>>[c + 1]) =>
              /\ tick_alive'
              /\ state' = [state EXCEPT !.times[c + 1] = drained'.message.value * MINUTE]]_vars

\* C9: start, stop and toggle change the running flag alone: start sets it,
\* stop clears it, toggle negates it.
C9_StartStopToggle ==
    [][(drained'.got /\ ~drained'.message.structured) =>
          /\ drained'.message.text = START => state' = [state EXCEPT !.running = TRUE]
          /\ drained'.message.text = STOP => state' = [state EXCEPT !.running = FALSE]
          /\ drained'.message.text = TOGGLE =>
                state' = [state EXCEPT !.running = ~state.running]]_vars

\* toggle stopped a running timer part-way through a break
C9_Witness ==
    /\ drained.got
    /\ drained.message = Bare(TOGGLE)
    /\ ~state.running
    /\ state.elapsed_time > 0
    /\ state.current_index = ShortBreak

\* C10: reset yields elapsed = 0, Work, not running and no completed session.
C10_Reset ==
    [][(drained'.got /\ drained'.message = Bare(RESET)) =>
          /\ state'.elapsed_time = 0
          /\ state'.current_index = Work
          /\ state'.running = FALSE
          /\ state'.session_completed = 0]_vars

\* reset was the last command applied, to a timer whose durations were changed
C10_Witness ==
    /\ drained.got
    /\ drained.message = Bare(RESET)
    /\ state.elapsed_time = 0
    /\ state.current_index = Work
    /\ ~state.running
    /\ state.session_completed = 0
    /\ state.times[1] = MINUTE

\* whether process_message recognises payload m: a structured set-work,
\* set-short or set-long, or one of the bare keywords
Recognised(m) ==
    IF m.structured
    THEN m.text \in {SET_WORK, SET_SHORT, SET_LONG}
    ELSE m.text \in {START, STOP, TOGGLE, RESET}

\* C11: a tick that drains a payload process_message does not recognise ends
\* as the tick without a pending command would: the same timer, the same status
\* line, and the tick thread alive unless that tick would have stopped it too.
C11_UnrecognisedIgnored ==
    [][(Tick /\ chan # <<>> /\ ~Recognised(chan[1])) =>
          LET stops == overflow_checks /\ state.elapsed_time > GetCurrentTime(state)
          IN /\ tick_alive' = ~stops
             /\ stops => state' = state /\ status' = status
             /\ ~stops => state' = AfterTick(state) /\ status' = StatusLine(state)]_vars

\* a tick drained a structured command with an unknown name while the timer
\* was running, and the timer went on
C11_Witness ==
    /\ TickCompleted
    /\ drained.got
    /\ drained.message = Structured(START, 1)
    /\ state.running
    /\ state.elapsed_time = 2

\* C12: with persistence enabled, the instance started after a stop begins
\* ticking from the elapsed time, the cycle and the running flag of the
\* snapshot the last successful store wrote; a tick leaves the snapshot as it
\* was or replaces it by the timer the tick ends with.
C12_RestoredFromLastStore ==
    [][/\ (Restart /\ config.persist /\ cache.present) =>
             /\ state'.elapsed_time = cache.timer.elapsed_time
             /\ state'.current_index = cache.timer.current_index
             /\ state'.running = cache.timer.running
       /\ Tick => (cache' = cache \/ (cache'.present /\ cache'.timer = state'))]_vars

\* an instance that has not ticked yet stands in the middle of a running
\* short break, on the snapshot of the instance before it
C12_Witness ==
    /\ config.persist
    /\ cache.present
    /\ ~status.printed
    /\ state.running
    /\ state.elapsed_time = 1
    /\ state.current_index = ShortBreak
    /\ state = cache.timer

\* the number a decimal numeral stands for
RECURSIVE NumeralValue(_)
NumeralValue(digits) ==
    IF digits = <<>> THEN 0
    ELSE LET last == digits[Len(digits)]
             d == CHOOSE i \in 0..9 : Digits[i + 1] = last
         IN 10 * NumeralValue(SubSeq(digits, 1, Len(digits) - 1)) + d

\* whether every element of text is a decimal digit
IsNumeral(text) == \A i \in 1..Len(text) : \E d \in 1..10 : Digits[d] = text[i]

\* C13 as stated: for elapsed <= duration, format_time returns exactly two
\* digits of minutes, a colon and exactly two digits of seconds, standing for
\* (duration - elapsed) div 60 and (duration - elapsed) mod 60.
C13_TwoDigitPair ==
    [][(Render /\ state.elapsed_time <= GetCurrentTime(state)) =>
          LET remaining == GetCurrentTime(state) - state.elapsed_time
              text == status'.text
          IN /\ Len(text) = 5
             /\ text[3] = ":"
             /\ IsNumeral(SubSeq(text, 1, 2)) /\ IsNumeral(SubSeq(text, 4, 5))
             /\ NumeralValue(SubSeq(text, 1, 2)) = remaining \div 60
             /\ NumeralValue(SubSeq(text, 4, 5)) = remaining % 60]_vars

\* C13: for elapsed <= duration, format_time returns the minutes
\* (duration - elapsed) div 60 on at least two digits, zero-padded below 10 and
\* on three or more digits from 100 minutes on, then a colon, then the seconds
\* (duration - elapsed) mod 60 on exactly two digits; 1800 s left read 30:00.
C13_PaddedPair ==
    [][(Render /\ state.elapsed_time <= GetCurrentTime(state)) =>
          LET remaining == GetCurrentTime(state) - state.elapsed_time
              text == status'.text
              n == Len(text)
          IN /\ n >= 5
             /\ text[n - 2] = ":"
             /\ IsNumeral(SubSeq(text, 1, n - 3)) /\ IsNumeral(SubSeq(text, n - 1, n))
             /\ NumeralValue(SubSeq(text, 1, n - 3)) = remaining \div 60
             /\ NumeralValue(SubSeq(text, n - 1, n)) = remaining % 60
             /\ (n = 5) = (remaining \div 60 < 100)
             /\ (remaining \div 60 >= 100) => text[1] # "0"
             /\ (remaining = 1800) => text = <<"3", "0", ":", "0", "0">>]_vars

\* set-work 30 was applied to a work cycle with nothing elapsed, and
\* format_time returned 30:00
C13_Witness ==
    /\ drained.got
    /\ drained.message = Structured(SET_WORK, 30)
    /\ state.current_index = Work
    /\ state.elapsed_time = 0
    /\ status.printed
    /\ status.text = <<"3", "0", ":", "0", "0">>

\* the set command that names cycle c
SetCommandOf(c) ==
    CASE c = Work -> SET_WORK
      [] c = ShortBreak -> SET_SHORT
      [] c = LongBreak -> SET_LONG

\* whether the state machine's policy leads from cycle c to cycle d
PolicyStep(c, d) == IF c = Work THEN d \in {ShortBreak, LongBreak} ELSE d = Work

\* whether the payload at the head of the channel sets the duration of the
\* current cycle to no more than the elapsed time
ShrinksCurrentCycle ==
    /\ chan # <<>>
    /\ chan[1].structured
    /\ chan[1].text = SetCommandOf(state.current_index)
    /\ chan[1].value * MINUTE <= state.elapsed_time

\* C14: the tick that drains a set command bringing the current cycle's
\* duration down to the elapsed time or below completes the cycle: the tick
\* thread keeps running, the cycle changes by the policy, and the elapsed
\* time restarts from 0 (1 at the end of the tick when the timer is running).
C14_ShrunkCycleCompletes ==
    [][(Tick /\ ShrinksCurrentCycle) =>
          /\ tick_alive'
          /\ PolicyStep(state.current_index, state'.current_index)
          /\ state'.elapsed_time = (IF state.running THEN 1 ELSE 0)]_vars

\* the timer a tick has after its command drain: process_message applied to
\* the head of the channel, or the timer as it was when nothing is queued
AfterDrain == IF chan # <<>> THEN ProcessMessage(state, chan[1]) ELSE state

\* whether the tick drains a reset command
DrainsReset == chan # <<>> /\ chan[1] = Bare(RESET)

\* C15 as stated: across a tick the cycle changes only by the policy and only
\* when the elapsed time has reached the cycle's duration, before or after the
\* tick's command drain; session_completed
\* grows by 1 on a transition out of Work and is unchanged otherwise, except
\* in a tick that drains reset.
C15_CycleOnlyByPolicy ==
    [][Tick =>
          /\ state'.current_index # state.current_index =>
                /\ PolicyStep(state.current_index, state'.current_index)
                /\ \/ state.elapsed_time >= GetCurrentTime(state)
                   \/ AfterDrain.elapsed_time >= GetCurrentTime(AfterDrain)
          /\ ~DrainsReset =>
                state'.session_completed =
                    IF state.current_index = Work /\ state'.current_index # Work
                    THEN state.session_completed + 1
                    ELSE state.session_completed]_vars

\* C15: across a tick the cycle changes only by a drained reset, which sets
\* Work, and then by the policy, only when the elapsed time after the drain has
\* reached the duration of the cycle; session_completed is set to 0 by a
\* drained reset, then grows by 1 on a transition out of Work and is unchanged
\* otherwise.
C15_CycleByPolicyOrReset ==
    [][Tick =>
          LET s1 == AfterDrain
          IN /\ s1.current_index = (IF DrainsReset THEN Work ELSE state.current_index)
             /\ s1.session_completed =
                   (IF DrainsReset THEN 0 ELSE state.session_completed)
             /\ state'.current_index # s1.current_index =>
                   /\ PolicyStep(s1.current_index, state'.current_index)
                   /\ s1.elapsed_time >= GetCurrentTime(s1)
             /\ state'.session_completed =
                   IF s1.current_index = Work /\ state'.current_index # Work
                   THEN s1.session_completed + 1
                   ELSE s1.session_completed]_vars

\* the fourth work session has ended in a long break
C15_Witness ==
    /\ TickCompleted
    /\ state.current_index = LongBreak
    /\ state.session_completed = MAX_ITERATIONS

\* C16: every tick prints one status line, and the line shows the timer as it
\* is after the tick's command drain, before update_state and increment_time.
C16_OneLinePerTick ==
    [][Tick => (tick_alive' /\ status' = StatusLine(AfterDrain))]_vars

\* C17: a tick adds 1 to the elapsed time at most once, to the elapsed time
\* after the drain or to the 0 of a cycle that has just completed, and only
\* when the timer is running after the tick's command drain; while it is
\* not running the elapsed time does not grow.
C17_IncrementOnlyWhenRunning ==
    [][Tick =>
          LET s1 == AfterDrain
              base == IF state'.current_index # s1.current_index
                      THEN 0 ELSE s1.elapsed_time
          IN /\ state'.elapsed_time \in {base, base + 1}
             /\ state'.elapsed_time = base + 1 => s1.running
             /\ (s1.running /\ tick_alive') => state'.elapsed_time = base + 1
             /\ ~s1.running => state'.elapsed_time <= state.elapsed_time]_vars

\* a tick drained stop part-way through a cycle and left the elapsed time
C17_Witness ==
    /\ TickCompleted
    /\ drained.got
    /\ drained.message = Bare(STOP)
    /\ ~state.running
    /\ state.elapsed_time = 1
    /\ status.value = <<0, 1>>

\* C18: the relay of a payload without "exit" appends it to the channel and
\* the accept loop goes on while the tick thread is alive; once the tick thread
\* is gone the send fails and the server ends, without the payload queued.
C18_RelayFailsIffTickGone ==
    [][\A message \in Payloads :
          (Accept(message) /\ ~ContainsExit(message)) =>
             IF tick_alive
             THEN server' = "listening" /\ chan' = Append(chan, message)
             ELSE server' = "crashed" /\ chan' = chan]_vars

\* the tick thread is gone and a relay has ended the server
C18_Witness ==
    /\ ~tick_alive
    /\ server = "crashed"
    /\ socket_exists

\* C19: wherever a tick can start, the timer it has after its command drain
\* has elapsed_time <= the duration of the current cycle, so format_time's
\* subtraction does not underflow.
C19_NoUnderflowAtFormatTime ==
    tick_alive => AfterDrain.elapsed_time <= GetCurrentTime(AfterDrain)

\* C20: a set command carrying v minutes stores exactly v * 60 seconds for the
\* cycle it names, without truncation or wrap-around.
C20_StoredDurationExact ==
    [][(/\ drained'.got
        /\ drained'.message.structured
        /\ drained'.message.text \in {SET_WORK, SET_SHORT, SET_LONG}) =>
          LET c == CHOOSE k \in {Work, ShortBreak, LongBreak} :
                      drained'.message.text = SetCommandOf(k)
          IN state'.times[c + 1] = drained'.message.value * MINUTE]_vars

====
